---- MODULE Spec2Model ----
(***************************************************************************)
(* Model of alphamind/model/data_preparing.py: the frequency-to-horizon    *)
(* mapping (_map_horizon), the panel assembly (prepare_data), the          *)
(* walk-forward batching loop (batch_processing) and the orchestration     *)
(* (fetch_data_package).                                                   *)
(*                                                                         *)
(* Arrays are sequences (1-based), a boolean mask is a function from the   *)
(* positions of an array to BOOLEAN, a dict is a function whose domain is  *)
(* its key set.  Python's None is the empty tuple and a present optional   *)
(* value v is <<v>>.                                                       *)
(***************************************************************************)
EXTENDS Integers, Sequences, FiniteSets, TLC

\* ---------------------------------------------------------------- bounds
MaxDate == 3
MaxRows == 3
MaxBatch == 2
MaxLength == 12
MaxKeys == 2

Dates == 1..MaxDate

None == << >>
Some(v) == <<v>>

\* ------------------------------------------------------------- variables
VARIABLES
    x_values,            \* batch_processing: feature array (one value per row)
    y_values,            \* batch_processing: target array
    groups,              \* batch_processing: schedule dates
    group_label,         \* batch_processing: date label of every row
    batch,               \* batch_processing: batch size
    risk_exp,            \* batch_processing: None or Some(risk exposure array)
    pre_process,         \* batch_processing: None or Some(list of transforms)
    post_process,        \* batch_processing: None or Some(list of transforms)
    i,                   \* loop index of `for i, start in enumerate(...)` (0-based)
    pc,                  \* "loop" | "done"
    train_x_buckets,
    train_y_buckets,
    predict_x_buckets,
    predict_y_buckets,
    calls,               \* the factor_processing calls made so far in this run
    run,                 \* 1 or 2: which call of batch_processing is running
    first,               \* None, or Some(what the first call returned)
    frequency,           \* _map_horizon: the frequency string, as its characters
    horizon,             \* _map_horizon: None, or Some(the value returned)
    error,               \* _map_horizon: None, or Some(the exception raised)
    last_call,           \* _map_horizon: None, or Some(<<frequency, horizon>>) of the call before
    engine_factor,       \* what engine.fetch_factor_range returns
    engine_return,       \* what engine.fetch_dx_return_range returns
    engine_industry,     \* what engine.fetch_industry_range returns
    engine_benchmark,    \* what engine.fetch_benchmark_range returns
    engine_risk,         \* what engine.fetch_risk_model_range returns ([1])
    neutralized_risk,    \* fetch_data_package: None or Some(list of risk names)
    return_df,           \* prepare_data's second result / the settlement frame
    factor_df,           \* prepare_data's third result
    train_x,             \* fetch_data_package: frame behind x_values
    train_y,             \* fetch_data_package: frame behind y_values
    date_label,          \* fetch_data_package: the date label vector
    dates,               \* fetch_data_package: np.unique(date_label)
    raised,              \* fetch_data_package: None or Some(the exception raised)
    step                 \* where fetch_data_package / prepare_data stands

batch_vars == <<x_values, y_values, groups, group_label, batch, risk_exp,
                pre_process, post_process, i, pc,
                train_x_buckets, train_y_buckets, predict_x_buckets,
                predict_y_buckets, calls, run, first>>

horizon_vars == <<frequency, horizon, error, last_call>>

engine_vars == <<engine_factor, engine_return, engine_industry,
                 engine_benchmark, engine_risk, neutralized_risk>>

package_vars == <<return_df, factor_df, train_x, train_y, date_label, dates,
                  raised, step>>

vars == <<horizon_vars, engine_vars, package_vars, x_values, y_values, groups, group_label, batch, risk_exp,
          pre_process, post_process, i, pc,
          train_x_buckets, train_y_buckets, predict_x_buckets,
          predict_y_buckets, calls, run, first>>

inputs == <<groups, group_label, batch, risk_exp, pre_process, post_process>>

\* --------------------------------------------------------------- helpers
RECURSIVE SeqsUpTo(_, _)
SeqsUpTo(S, n) ==
    IF n = 0 THEN {<< >>}
    ELSE LET shorter == SeqsUpTo(S, n - 1)
         IN  shorter \cup {Append(s, e) : s \in {t \in shorter : Len(t) = n - 1}, e \in S}

IsStrictlyIncreasing(s) == \A a, b \in DOMAIN s : a < b => s[a] < s[b]

MinOf(s) == CHOOSE m \in {s[k] : k \in DOMAIN s} : \A k \in DOMAIN s : m <= s[k]

\* arr[mask]: the elements of arr at the True positions of mask, in order
RECURSIVE TakeUpTo(_, _, _)
TakeUpTo(arr, mask, k) ==
    IF k = 0 THEN << >>
    ELSE IF mask[k] THEN Append(TakeUpTo(arr, mask, k - 1), arr[k])
         ELSE TakeUpTo(arr, mask, k - 1)

Take(arr, mask) == TakeUpTo(arr, mask, Len(arr))

\* the positions 1..n of an array of n rows
Positions(n) == [k \in 1..n |-> k]

\* seq[:stop] of Python for a sequence of length n
SliceStop(stop, n) ==
    IF stop < 0 THEN (IF n + stop < 0 THEN 0 ELSE n + stop)
    ELSE (IF stop > n THEN n ELSE stop)

\* a dict after d[key] = value
DictSet(d, key, value) ==
    [k \in DOMAIN d \cup {key} |-> IF k = key THEN value ELSE d[k]]

\* ------------------------------------------- factor_processing (collaborator)
\* A cross-sectional transform of one window: it returns one value per row
\* it was given.  The pre- and post-processing steps, when given, are computed
\* from the whole window (centring on the window's minimum); the
\* neutralization, when risk factors are given, removes the row's exposure.
Centre(raw) ==
    IF raw = << >> THEN << >> ELSE [k \in DOMAIN raw |-> raw[k] - MinOf(raw)]

factor_processing(raw, pre, risk_factors, post) ==
    LET s1 == IF pre # None THEN Centre(raw) ELSE raw
        s2 == IF risk_factors # None
              THEN [k \in DOMAIN s1 |-> s1[k] - risk_factors[1][k]]
              ELSE s1
    IN  IF post # None THEN Centre(s2) ELSE s2

\* ------------------------------------------------------- batch_processing
\* a bug: groups[:-batch - 1], the last window is never emitted
LoopDates_Short == SubSeq(groups, 1, SliceStop(-batch, Len(groups)) - 1)

\* groups[:-batch]
LoopDates == SubSeq(groups, 1, SliceStop(-batch, Len(groups)))

\* a bug: the train window includes the rows of the predicted date
TrainIndex_Leaky(start, end) ==
    [k \in DOMAIN group_label |-> group_label[k] >= start /\ group_label[k] <= end]

\* (group_label >= start) & (group_label < end)
TrainIndex(start, end) ==
    [k \in DOMAIN group_label |-> group_label[k] >= start /\ group_label[k] < end]

\* a bug: the predict window has no lower end
PredictIndex_NoLower(start, end) ==
    [k \in DOMAIN group_label |-> group_label[k] <= end]

\* (group_label > start) & (group_label <= end)
PredictIndex(start, end) ==
    [k \in DOMAIN group_label |-> group_label[k] > start /\ group_label[k] <= end]

\* risk_exp[index] if risk_exp is not None else None
RiskSlice(index) ==
    IF risk_exp # None THEN Some(Take(risk_exp[1], index)) ELSE None

\* which rows of the input a risk slice was taken from
RiskRows(index) ==
    IF risk_exp # None THEN Some(Take(Positions(Len(risk_exp[1])), index)) ELSE None

\* a bug: the whole processed window is stored as the predict bucket
EndMask_All(sub_dates, end) == [k \in DOMAIN sub_dates |-> sub_dates[k] <= end]

\* sub_dates == end
EndMask(sub_dates, end) == [k \in DOMAIN sub_dates |-> sub_dates[k] = end]

\* the mask behind this_risk_exp when the predict targets are processed:
\* this_risk_exp was reassigned from the predict index (lines 111-114)
PredictYRisk(trainIndex, predictIndex) == predictIndex

\* a bug: the predict targets are stored without the emptiness test
HasTargetRows_Always(this_raw_y) == TRUE

\* len(this_raw_y) > 0
HasTargetRows(this_raw_y) == Len(this_raw_y) > 0

\* a bug: the slice is a view and the transform writes into it
AfterProcessing_InPlace(arr, index, processed) ==
    [k \in DOMAIN arr |->
        IF index[k] THEN processed[Cardinality({q \in 1..k : index[q]})] ELSE arr[k]]

\* x_values[index] is a copy: processing it leaves the input array as it was
AfterProcessing(arr, index, processed) == arr

Process(raw, risk) == factor_processing(raw, pre_process, risk, post_process)

Bucket(rows, vals) == [rows |-> rows, vals |-> vals]

Call(kind, start, end, rows, raw, riskRows) ==
    [kind |-> kind, start |-> start, end |-> end, rows |-> rows, raw |-> raw,
     risk_rows |-> riskRows]

\* one pass of the loop body (lines 88-128)
Iterate ==
    /\ pc = "loop"
    /\ i < Len(LoopDates)
    /\ LET start == LoopDates[i + 1]
           end == groups[i + batch + 1]
           n == Len(group_label)
           index == TrainIndex(start, end)
           rows == Take(Positions(n), index)
           this_raw_x == Take(x_values, index)
           this_raw_y == Take(y_values, index)
           this_risk_exp == RiskSlice(index)
           index2 == PredictIndex(start, end)
           sub_dates == Take(group_label, index2)
           rows2 == Take(Positions(n), index2)
           raw_x2 == Take(x_values, index2)
           risk2 == RiskSlice(index2)
           ne_x == Process(raw_x2, risk2)
           raw_y2 == Take(y_values, index2)
           yIndex == PredictYRisk(index, index2)
           ne_y == Process(raw_y2, RiskSlice(yIndex))
           sel == EndMask(sub_dates, end)
           c1 == Call("train_x", start, end, rows, this_raw_x, RiskRows(index))
           c2 == Call("train_y", start, end, rows, this_raw_y, RiskRows(index))
           c3 == Call("predict_x", start, end, rows2, raw_x2, RiskRows(index2))
           c4 == Call("predict_y", start, end, rows2, raw_y2, RiskRows(yIndex))
       IN  /\ train_x_buckets' = DictSet(train_x_buckets, end,
                  Bucket(rows, Process(this_raw_x, this_risk_exp)))
           /\ train_y_buckets' = DictSet(train_y_buckets, end,
                  Bucket(rows, Process(this_raw_y, this_risk_exp)))
           /\ predict_x_buckets' = DictSet(predict_x_buckets, end,
                  Bucket(Take(rows2, sel), Take(ne_x, sel)))
           /\ x_values' = AfterProcessing(
                  AfterProcessing(x_values, index, Process(this_raw_x, this_risk_exp)),
                  index2, ne_x)
           /\ y_values' = AfterProcessing(
                  AfterProcessing(y_values, index, Process(this_raw_y, this_risk_exp)),
                  index2, ne_y)
           /\ IF HasTargetRows(raw_y2)
              THEN /\ predict_y_buckets' = DictSet(predict_y_buckets, end,
                          Bucket(Take(rows2, sel), Take(ne_y, sel)))
                   /\ calls' = calls \o <<c1, c2, c3, c4>>
              ELSE /\ predict_y_buckets' = predict_y_buckets
                   /\ calls' = calls \o <<c1, c2, c3>>
    /\ i' = i + 1
    /\ UNCHANGED <<inputs, pc, run, first>>
    /\ UNCHANGED <<horizon_vars, engine_vars, package_vars>>

\* return train_x_buckets, train_y_buckets, predict_x_buckets, predict_y_buckets
Return ==
    /\ pc = "loop"
    /\ i >= Len(LoopDates)
    /\ pc' = "done"
    /\ UNCHANGED <<inputs, x_values, y_values, i, train_x_buckets, train_y_buckets,
                   predict_x_buckets, predict_y_buckets, calls, run, first>>
    /\ UNCHANGED <<horizon_vars, engine_vars, package_vars>>

Result == <<train_x_buckets, train_y_buckets, predict_x_buckets, predict_y_buckets>>

\* the caller calls batch_processing again with the same arguments:
\* the four dicts are created afresh (lines 82-85)
CallAgain ==
    /\ pc = "done"
    /\ run = 1
    /\ run' = 2
    /\ first' = Some(Result)
    /\ pc' = "loop"
    /\ i' = 0
    /\ train_x_buckets' = << >>
    /\ train_y_buckets' = << >>
    /\ predict_x_buckets' = << >>
    /\ predict_y_buckets' = << >>
    /\ calls' = << >>
    /\ UNCHANGED <<inputs, x_values, y_values>>
    /\ UNCHANGED <<horizon_vars, engine_vars, package_vars>>

HorizonIdle ==
    /\ frequency = << >>
    /\ horizon = None
    /\ error = None
    /\ last_call = None

PackageIdle ==
    /\ engine_factor = << >>
    /\ engine_return = << >>
    /\ engine_industry = << >>
    /\ engine_benchmark = << >>
    /\ engine_risk = << >>
    /\ neutralized_risk = None
    /\ return_df = << >>
    /\ factor_df = << >>
    /\ train_x = << >>
    /\ train_y = << >>
    /\ date_label = << >>
    /\ dates = << >>
    /\ raised = None
    /\ step = "idle"

BatchIdle ==
    /\ groups = << >>
    /\ group_label = << >>
    /\ x_values = << >>
    /\ y_values = << >>
    /\ risk_exp = None
    /\ pre_process = None
    /\ post_process = None
    /\ batch = 1
    /\ i = 0
    /\ pc = "idle"
    /\ train_x_buckets = << >>
    /\ train_y_buckets = << >>
    /\ predict_x_buckets = << >>
    /\ predict_y_buckets = << >>
    /\ calls = << >>
    /\ run = 1
    /\ first = None

Init ==
    /\ HorizonIdle
    /\ PackageIdle
    /\ groups \in {g \in SeqsUpTo(Dates, MaxDate) : IsStrictlyIncreasing(g)}
    /\ group_label \in SeqsUpTo(Dates, MaxRows)
    /\ x_values \in {[k \in DOMAIN group_label |-> (m * k) % 3] : m \in 1..2}
    /\ y_values = [k \in DOMAIN group_label |-> 10 * k]
    /\ risk_exp \in {None, Some([k \in DOMAIN group_label |-> k % 2])}
    /\ pre_process \in {None, Some("standardize")}
    /\ post_process = pre_process
    /\ batch \in 0..MaxBatch
    /\ i = 0
    /\ pc = "loop"
    /\ train_x_buckets = << >>
    /\ train_y_buckets = << >>
    /\ predict_x_buckets = << >>
    /\ predict_y_buckets = << >>
    /\ calls = << >>
    /\ run = 1
    /\ first = None

Next == Iterate \/ Return \/ CallAgain

Spec == Init /\ [][Next]_vars

\* ------------------------------------------------ claims: batch_processing
\* what the claims are stated over, computed from the inputs alone
RECURSIVE SortedSeq(_)
SortedSeq(S) ==
    IF S = {} THEN << >>
    ELSE LET m == CHOOSE a \in S : \A b \in S : b <= a
         IN  Append(SortedSeq(S \ {m}), m)

Gather(arr, rows) == [j \in DOMAIN rows |-> arr[rows[j]]]
GatherRisk(rows) == IF risk_exp = None THEN None ELSE Some(Gather(risk_exp[1], rows))
IndexIn(win, r) == CHOOSE q \in DOMAIN win : win[q] = r
Emitted == 0..(i - 1)
StartOf(j) == groups[j + 1]
KeyOf(j) == groups[j + batch + 1]
TrainRows(j) ==
    SortedSeq({k \in DOMAIN group_label :
                  group_label[k] >= StartOf(j) /\ group_label[k] < KeyOf(j)})
PredictWindow(j) ==
    SortedSeq({k \in DOMAIN group_label :
                  group_label[k] > StartOf(j) /\ group_label[k] <= KeyOf(j)})
EndRows(j) == SortedSeq({k \in DOMAIN group_label : group_label[k] = KeyOf(j)})
KeysFrom(b) == {groups[k] : k \in (b + 1)..Len(groups)}

BucketCounts(b) ==
    /\ DOMAIN train_x_buckets = KeysFrom(b)
    /\ DOMAIN train_y_buckets = KeysFrom(b)
    /\ Cardinality(DOMAIN train_x_buckets) = Len(groups) - b
    /\ Cardinality(DOMAIN train_y_buckets) = Len(groups) - b
    /\ Cardinality(DOMAIN predict_x_buckets) <= Len(groups) - b
    /\ Cardinality(DOMAIN predict_y_buckets) <= Len(groups) - b

\* C1 as stated: for every schedule of length n and every batch size b <= n,
\* a finished call has exactly n - b train feature and train target buckets,
\* keyed by schedule_dates[b..n-1], and at most n - b predict buckets.
C1_AsStated ==
    (pc = "done" /\ batch <= Len(groups)) => BucketCounts(batch)

\* C1 amended: the same for every batch size 1 <= b <= n.
C1_BucketCount ==
    (pc = "done" /\ batch >= 1 /\ batch <= Len(groups)) => BucketCounts(batch)

C1_Witness ==
    /\ pc = "done"
    /\ batch >= 1
    /\ Len(groups) - batch >= 2
    /\ Cardinality(DOMAIN train_x_buckets) = Len(groups) - batch

\* C2: under every emitted key end = schedule_dates[i+b] the train feature and
\* train target buckets hold exactly the rows labelled in [schedule_dates[i], end),
\* in input order, processed as one window; no row labelled end is among them.
C2_TrainWindow ==
    \A j \in Emitted :
        LET want == TrainRows(j)
            bx == train_x_buckets[KeyOf(j)]
            by == train_y_buckets[KeyOf(j)]
        IN  /\ bx.rows = want
            /\ by.rows = want
            /\ bx.vals = Process(Gather(x_values, want), GatherRisk(want))
            /\ by.vals = Process(Gather(y_values, want), GatherRisk(want))
            /\ \A q \in DOMAIN bx.rows : group_label[bx.rows[q]] # KeyOf(j)
            /\ \A q \in DOMAIN by.rows : group_label[by.rows[q]] # KeyOf(j)

C2_Witness ==
    \E j \in Emitted :
        /\ Len(train_x_buckets[KeyOf(j)].rows) >= 2
        /\ \E k \in DOMAIN group_label : group_label[k] = KeyOf(j)
        /\ \E a, b \in DOMAIN group_label : a < b /\ group_label[a] > group_label[b]

PredictBucketIs(bucket, values, j) ==
    LET win == PredictWindow(j)
        ne == Process(Gather(values, win), GatherRisk(win))
        atEnd == EndRows(j)
    IN  /\ bucket.rows = atEnd
        /\ bucket.vals = [q \in DOMAIN atEnd |-> ne[IndexIn(win, atEnd[q])]]

\* C3: under every emitted key end the predict feature bucket, and the predict
\* target bucket when stored, hold only rows labelled end and each such row
\* once: the label == end positions of the processed window (start, end].
C3_PredictRows ==
    \A j \in Emitted :
        /\ PredictBucketIs(predict_x_buckets[KeyOf(j)], x_values, j)
        /\ KeyOf(j) \in DOMAIN predict_y_buckets =>
               PredictBucketIs(predict_y_buckets[KeyOf(j)], y_values, j)

C3_Witness ==
    \E j \in Emitted :
        /\ KeyOf(j) \in DOMAIN predict_y_buckets
        /\ Len(predict_y_buckets[KeyOf(j)].rows) >= 2
        /\ Len(PredictWindow(j)) > Len(predict_x_buckets[KeyOf(j)].rows)

AllInputs == <<inputs, x_values, y_values>>

C7_CallsInWindow ==
    \A c \in DOMAIN calls :
        LET call == calls[c]
            values == IF call.kind \in {"train_x", "predict_x"} THEN x_values ELSE y_values
        IN  /\ \A q \in DOMAIN call.rows :
                  /\ group_label[call.rows[q]] >= call.start
                  /\ group_label[call.rows[q]] <= call.end
            /\ call.raw = Gather(values, call.rows)
            /\ IF risk_exp = None THEN call.risk_rows = None
               ELSE call.risk_rows = Some(call.rows)

C7_Witness ==
    /\ risk_exp # None
    /\ ~ (\A a, b \in DOMAIN group_label : a < b => group_label[a] <= group_label[b])
    /\ \E c \in DOMAIN calls :
          /\ calls[c].kind = "predict_y"
          /\ Len(calls[c].rows) >= 1
    /\ \E j \in Emitted : \E k \in DOMAIN group_label : group_label[k] > KeyOf(j)
    /\ \E j \in Emitted : \E k \in DOMAIN group_label : group_label[k] < StartOf(j)

\* C8: the train feature, train target and predict feature maps have one entry
\* per emitted window (also for a window without rows), and the predict target
\* map has an entry for key end exactly when (start, end] holds a row.
C8_KeySets ==
    /\ DOMAIN train_x_buckets = {KeyOf(j) : j \in Emitted}
    /\ DOMAIN train_y_buckets = DOMAIN train_x_buckets
    /\ DOMAIN predict_x_buckets = DOMAIN train_x_buckets
    /\ DOMAIN predict_y_buckets \subseteq DOMAIN train_x_buckets
    /\ \A j \in Emitted :
          KeyOf(j) \in DOMAIN predict_y_buckets <=> PredictWindow(j) # << >>

C8_Witness ==
    /\ pc = "done"
    /\ \E j \in Emitted :
          /\ KeyOf(j) \notin DOMAIN predict_y_buckets
          /\ train_x_buckets[KeyOf(j)].rows = << >>
    /\ \E j \in Emitted : KeyOf(j) \in DOMAIN predict_y_buckets

\* ------------------------------------------------------------ _map_horizon
DigitChars == <<"0", "1", "2", "3", "4", "5", "6", "7", "8", "9">>
UnitChars == {"b", "d", "w", "m", "y"}

DigitValue(c) == (CHOOSE d \in DOMAIN DigitChars : DigitChars[d] = c) - 1

\* the decimal digits of a natural number: how a caller writes the length
RECURSIVE Decimal(_)
Decimal(n) ==
    IF n < 10 THEN <<DigitChars[n + 1]>>
    ELSE Append(Decimal(n \div 10), DigitChars[(n % 10) + 1])

\* int(...) of a string of decimal digits
RECURSIVE ParseInt(_)
ParseInt(chars) ==
    IF chars = << >> THEN 0
    ELSE 10 * ParseInt(SubSeq(chars, 1, Len(chars) - 1)) + DigitValue(chars[Len(chars)])

\* TimeUnits of the unit letter
UnitOf(c) ==
    CASE c = "b" -> "BDays"
      [] c = "d" -> "Days"
      [] c = "w" -> "Weeks"
      [] c = "m" -> "Months"
      [] c = "y" -> "Years"

\* Period(frequency): the units() and length() of the parsed period
Period(freq) ==
    [units |-> UnitOf(freq[Len(freq)]),
     length |-> ParseInt(SubSeq(freq, 1, Len(freq) - 1))]

\* a bug: a week counted as seven trading days
_map_horizon_CalendarWeek(freq) ==
    LET parsed_period == Period(freq)
        unit == parsed_period.units
        length == parsed_period.length
    IN  IF unit = "BDays" \/ unit = "Days"
        THEN [horizon |-> Some(length - 1), error |-> None]
        ELSE IF unit = "Weeks"
        THEN [horizon |-> Some(7 * length - 1), error |-> None]
        ELSE IF unit = "Months"
        THEN [horizon |-> Some(22 * length - 1), error |-> None]
        ELSE [horizon |-> None, error |-> Some("ValueError: unrecognized frequency rule")]

\* _map_horizon(frequency): the value returned or the exception raised
_map_horizon(freq) ==
    LET parsed_period == Period(freq)
        unit == parsed_period.units
        length == parsed_period.length
    IN  IF unit = "BDays" \/ unit = "Days"
        THEN [horizon |-> Some(length - 1), error |-> None]
        ELSE IF unit = "Weeks"
        THEN [horizon |-> Some(5 * length - 1), error |-> None]
        ELSE IF unit = "Months"
        THEN [horizon |-> Some(22 * length - 1), error |-> None]
        ELSE [horizon |-> None, error |-> Some("ValueError: unrecognized frequency rule")]

Frequencies == {Append(Decimal(n), u) : n \in 0..MaxLength, u \in UnitChars}

\* a caller calls _map_horizon(f)
CallMapHorizon ==
    /\ \E f \in Frequencies :
          /\ frequency' = f
          /\ horizon' = _map_horizon(f).horizon
          /\ error' = _map_horizon(f).error
    /\ last_call' = IF frequency = << >> THEN None ELSE Some(<<frequency, horizon>>)
    /\ UNCHANGED <<batch_vars, engine_vars, package_vars>>

InitHorizon ==
    /\ HorizonIdle
    /\ PackageIdle
    /\ BatchIdle

SpecHorizon == InitHorizon /\ [][CallMapHorizon]_vars

\* what the frequency of length n and unit letter u must map to
ExpectedHorizon(n, u) ==
    CASE u \in {"b", "d"} -> Some(n - 1)
      [] u = "w" -> Some(5 * n - 1)
      [] u = "m" -> Some(22 * n - 1)
      [] OTHER -> None

Written(n, u) == Decimal(n) \o <<u>>

\* C4: _map_horizon returns length - 1 for business and calendar days,
\* 5*length - 1 for weeks and 22*length - 1 for months, hence never less for a
\* longer period of the same unit; 0 for "1b", 9 for "2w", 65 for "3m"; for
\* any other unit it returns nothing and raises the unrecognized-frequency error.
C4_Horizon ==
    /\ \A n \in 0..MaxLength, u \in UnitChars :
          frequency = Written(n, u) =>
              /\ horizon = ExpectedHorizon(n, u)
              /\ (u \in {"b", "d", "w", "m"}) <=> (error = None)
              /\ (u \notin {"b", "d", "w", "m"}) =>
                     error = Some("ValueError: unrecognized frequency rule")
    /\ frequency = <<"1", "b">> => horizon = Some(0)
    /\ frequency = <<"2", "w">> => horizon = Some(9)
    /\ frequency = <<"3", "m">> => horizon = Some(65)
    /\ \A n, m \in 0..MaxLength, u \in UnitChars :
          (/\ last_call # None
           /\ n <= m
           /\ last_call[1][1] = Written(n, u)
           /\ frequency = Written(m, u)
           /\ horizon # None) =>
              last_call[1][2][1] <= horizon[1]

C4_Witness ==
    /\ last_call # None
    /\ last_call[1][1] = <<"2", "w">>
    /\ frequency = <<"1", "2", "w">>
    /\ horizon = Some(59)

\* ------------------------------------------------------------ data frames
\* A frame is a sequence of rows; a row is a record with the key columns
\* trade_date and code and, for every other column, a cell: NaN or <<value>>.
NaN == << >>
Keys == 1..MaxKeys
KeyDate(k) == (k \div 2) + 1
KeyCode(k) == (k % 2) + 1
KeyColumns == {"trade_date", "code"}

Range(df) == {df[k] : k \in DOMAIN df}
SameKey(a, b) == a.trade_date = b.trade_date /\ a.code = b.code
Matches(row, right) == {r \in Range(right) : SameKey(r, row)}

RowBefore(a, b) ==
    \/ a.trade_date < b.trade_date
    \/ (a.trade_date = b.trade_date /\ a.code < b.code)

\* df.sort_values(['trade_date', 'code'])
RECURSIVE SortRows(_)
SortRows(S) ==
    IF S = {} THEN << >>
    ELSE LET m == CHOOSE a \in S : \A b \in S : a = b \/ RowBefore(a, b)
         IN  <<m>> \o SortRows(S \ {m})

sort_values(df) == SortRows(Range(df))

Reverse(df) == [k \in DOMAIN df |-> df[Len(df) + 1 - k]]

\* pd.merge(left, right, on=['trade_date', 'code']): the rows of left that
\* have a partner in right, in left's order, with right's columns added
MergeInner(left, right) ==
    LET kept == SelectSeq(left, LAMBDA row : Matches(row, right) # {})
    IN  [k \in DOMAIN kept |-> kept[k] @@ (CHOOSE r \in Matches(kept[k], right) : TRUE)]

\* a bug: the benchmark weights joined as an inner join
MergeLeft_Inner(left, right, blank) == MergeInner(left, right)

\* pd.merge(left, right, on=[...], how='left'): every row of left, with
\* right's columns added, NaN where left's key has no partner
MergeLeft(left, right, blank) ==
    [k \in DOMAIN left |->
        IF Matches(left[k], right) # {}
        THEN left[k] @@ (CHOOSE r \in Matches(left[k], right) : TRUE)
        ELSE left[k] @@ blank]

\* df.dropna(): the rows without a NaN in any column
dropna(df) ==
    SelectSeq(df, LAMBDA row : \A c \in (DOMAIN row) \ KeyColumns : row[c] # NaN)

\* df[column].fillna(value)
fillna(df, column, value) ==
    [k \in DOMAIN df |->
        [c \in DOMAIN df[k] |->
            IF c = column /\ df[k][c] = NaN THEN <<value>> ELSE df[k][c]]]

\* df[columns]
Columns(df, columns) == [k \in DOMAIN df |-> [c \in columns |-> df[k][c]]]

FactorRow(k, cell) ==
    [trade_date |-> KeyDate(k), code |-> KeyCode(k), EPS |-> cell, isOpen |-> <<TRUE>>]
ReturnRow(k, cell) ==
    [trade_date |-> KeyDate(k), code |-> KeyCode(k), dx |-> cell]
BenchmarkRow(k) ==
    [trade_date |-> KeyDate(k), code |-> KeyCode(k), weight |-> <<k>>]
IndustryRow(k) ==
    [trade_date |-> KeyDate(k), code |-> KeyCode(k), industry |-> <<"bank">>,
     industry_code |-> <<k>>]
RiskRow(k, cell) ==
    [trade_date |-> KeyDate(k), code |-> KeyCode(k), SIZE |-> cell]

CellOf(opt, value) == IF opt = "nan" THEN NaN ELSE <<value>>

\* transformer.names
transformer_names == <<"EPS">>

\* ------------------------------------------------------------ prepare_data
\* lines 58-71: fetch the four panels, join them, return the two frames
PrepareData ==
    /\ step = "start"
    /\ LET fetched == sort_values(engine_factor)
           df1 == dropna(MergeInner(fetched, engine_return))
           df2 == MergeLeft(df1, engine_benchmark, [weight |-> NaN])
           df3 == MergeInner(df2, engine_industry)
           df == fillna(df3, "weight", 0)
       IN  /\ return_df' = Columns(df, {"trade_date", "code", "dx"})
           /\ factor_df' = Columns(df, {"trade_date", "code", "weight", "isOpen",
                                        "industry_code", "industry", "EPS"})
    /\ step' = "prepared"
    /\ UNCHANGED <<train_x, train_y, date_label, dates, raised>>
    /\ UNCHANGED <<horizon_vars, engine_vars, batch_vars>>

PanelOptions(options) == [Keys -> options]
Present(opt) == {k \in Keys : opt[k] # "absent"}

InitPrepare ==
    /\ HorizonIdle
    /\ BatchIdle
    /\ \E f \in PanelOptions({"absent", "value", "nan"}) :
          engine_factor = Reverse(SortRows({FactorRow(k, CellOf(f[k], k)) : k \in Present(f)}))
    /\ \E r \in PanelOptions({"absent", "value", "nan"}) :
          engine_return = SortRows({ReturnRow(k, CellOf(r[k], 10 * k)) : k \in Present(r)})
    /\ \E b \in PanelOptions({"absent", "value"}) :
          engine_benchmark = SortRows({BenchmarkRow(k) : k \in Present(b)})
    /\ \E n \in PanelOptions({"absent", "value"}) :
          engine_industry = SortRows({IndustryRow(k) : k \in Present(n)})
    /\ engine_risk = << >>
    /\ neutralized_risk = None
    /\ return_df = << >>
    /\ factor_df = << >>
    /\ train_x = << >>
    /\ train_y = << >>
    /\ date_label = << >>
    /\ dates = << >>
    /\ raised = None
    /\ step = "start"

SpecPrepare == InitPrepare /\ [][PrepareData]_vars

KeyOfRow(row) == <<row.trade_date, row.code>>
KeysOf(df) == {KeyOfRow(df[k]) : k \in DOMAIN df}
Complete(df) == {KeyOfRow(row) : row \in {r \in Range(df) :
                                             \A c \in (DOMAIN r) \ KeyColumns : r[c] # NaN}}
Survivors == (Complete(engine_factor) \cap Complete(engine_return)) \cap KeysOf(engine_industry)

\* C5: prepare_data's frames hold one row for exactly the keys that the factor
\* and the return panel both have without a missing value and that the
\* industry panel has; a key without a return row is never in them; a
\* surviving key without a benchmark row is kept, with weight exactly 0.
C5_Survivors ==
    step = "prepared" =>
        /\ KeysOf(return_df) = Survivors
        /\ KeysOf(factor_df) = Survivors
        /\ Len(return_df) = Cardinality(Survivors)
        /\ Len(factor_df) = Cardinality(Survivors)
        /\ \A key \in KeysOf(engine_factor) \ KeysOf(engine_return) :
              key \notin KeysOf(return_df) \cup KeysOf(factor_df)
        /\ \A key \in Survivors \ KeysOf(engine_benchmark) :
              \E k \in DOMAIN factor_df :
                  KeyOfRow(factor_df[k]) = key /\ factor_df[k].weight = <<0>>
        /\ \A k \in DOMAIN factor_df :
              \A r \in Matches(factor_df[k], engine_benchmark) :
                  factor_df[k].weight = r.weight

C5_Witness ==
    /\ step = "prepared"
    /\ KeysOf(engine_factor) \ KeysOf(engine_return) # {}
    /\ Survivors \ KeysOf(engine_benchmark) # {}
    /\ \E k \in DOMAIN factor_df : factor_df[k].weight = <<0>>

\* ------------------------------------------------------ fetch_data_package
\* a column of a frame as an array of numbers
ColumnValues(df, column) == [k \in DOMAIN df |-> df[k][column][1]]

\* `if neutralized_risk:` : neither None nor an empty list
Truthy(names) == names # None /\ names[1] # << >>

\* list(set(neutralized_risk).difference(transformer.names))
used_neutralized_risk ==
    {neutralized_risk[1][k] : k \in DOMAIN neutralized_risk[1]}
        \ {transformer_names[k] : k \in DOMAIN transformer_names}

\* np.unique(date_label)
Unique(labels) == SortedSeq({labels[k] : k \in DOMAIN labels})

\* lines 158-178: the arrays handed to the batching, and the date labels
LoadArrays ==
    /\ step = "prepared"
    /\ IF Truthy(neutralized_risk)
       THEN LET risk_df == dropna(Columns(engine_risk, KeyColumns \cup used_neutralized_risk))
                merged_x == MergeInner(factor_df, risk_df)
                merged_y == Columns(MergeInner(return_df, risk_df),
                                    {"trade_date", "code", "dx"})
            IN  /\ train_x' = merged_x
                /\ return_df' = merged_y
                /\ train_y' = merged_y
                /\ risk_exp' = Some(ColumnValues(merged_x, neutralized_risk[1][1]))
                /\ x_values' = ColumnValues(merged_x, transformer_names[1])
                /\ y_values' = ColumnValues(merged_y, "dx")
       ELSE /\ risk_exp' = None
            /\ train_x' = factor_df
            /\ train_y' = return_df
            /\ x_values' = ColumnValues(factor_df, transformer_names[1])
            /\ y_values' = ColumnValues(return_df, "dx")
            /\ return_df' = return_df
    /\ date_label' = [k \in DOMAIN factor_df |-> factor_df[k].trade_date]
    /\ dates' = Unique(date_label')
    /\ step' = "loaded"
    /\ UNCHANGED <<factor_df, raised>>
    /\ UNCHANGED <<groups, group_label, batch, pre_process, post_process, i, pc,
                   train_x_buckets, train_y_buckets, predict_x_buckets,
                   predict_y_buckets, calls, run, first>>
    /\ UNCHANGED <<horizon_vars, engine_vars>>

\* return_df[column] = train_x[column]: assignment aligned on the row index
AssignColumn(df, column, from) ==
    [k \in DOMAIN df |-> (column :> from[k][column]) @@ df[k]]

\* return_df.loc[:, name] = risk_exp[:, i]
AssignArray(df, name, array) ==
    [k \in DOMAIN df |-> (name :> <<array[k]>>) @@ df[k]]

\* lines 180-185: the settlement frame gets its reporting columns
Settle ==
    /\ step = "loaded"
    /\ LET w1 == AssignColumn(return_df, "weight", train_x)
           w2 == AssignColumn(w1, "industry", train_x)
           w3 == AssignColumn(w2, "industry_code", train_x)
           w4 == AssignColumn(w3, "isOpen", train_x)
       IN  IF neutralized_risk = None
           THEN \* enumerate(None)
                /\ raised' = Some("TypeError: 'NoneType' object is not iterable")
                /\ return_df' = w4
                /\ step' = "failed"
           ELSE /\ raised' = None
                /\ return_df' = IF neutralized_risk[1] = << >> THEN w4
                                ELSE AssignArray(w4, neutralized_risk[1][1], risk_exp[1])
                /\ step' = "settled"
    /\ UNCHANGED <<factor_df, train_x, train_y, date_label, dates>>
    /\ UNCHANGED <<horizon_vars, engine_vars, batch_vars>>

\* line 189: batch_processing(x_values, y_values, dates, date_label, batch,
\* risk_exp, pre_process, post_process) is entered with these arguments
CallBatch ==
    /\ step = "settled"
    /\ groups' = dates
    /\ group_label' = date_label
    /\ pc' = "loop"
    /\ step' = "batching"
    /\ UNCHANGED <<x_values, y_values, batch, risk_exp, pre_process, post_process,
                   i, train_x_buckets, train_y_buckets, predict_x_buckets,
                   predict_y_buckets, calls, run, first>>
    /\ UNCHANGED <<return_df, factor_df, train_x, train_y, date_label, dates, raised>>
    /\ UNCHANGED <<horizon_vars, engine_vars>>

InitPackage ==
    /\ HorizonIdle
    /\ BatchIdle
    /\ \E f \in PanelOptions({"absent", "value"}) :
          engine_factor = Reverse(SortRows({FactorRow(k, <<k>>) : k \in Present(f)}))
    /\ \E r \in PanelOptions({"absent", "value"}) :
          engine_return = SortRows({ReturnRow(k, <<10 * k>>) : k \in Present(r)})
    /\ \E b \in PanelOptions({"absent", "value"}) :
          engine_benchmark = SortRows({BenchmarkRow(k) : k \in Present(b)})
    /\ engine_industry = SortRows({IndustryRow(k) : k \in Keys})
    /\ \E e \in PanelOptions({"absent", "value", "nan"}) :
          engine_risk = SortRows({RiskRow(k, CellOf(e[k], 100 + k)) : k \in Present(e)})
    /\ neutralized_risk \in {None, Some(<< >>), Some(<<"SIZE">>)}
    /\ return_df = << >>
    /\ factor_df = << >>
    /\ train_x = << >>
    /\ train_y = << >>
    /\ date_label = << >>
    /\ dates = << >>
    /\ raised = None
    /\ step = "start"

NextPackage == PrepareData \/ LoadArrays \/ Settle \/ CallBatch

SpecPackage == InitPackage /\ [][NextPackage]_vars

\* C9: the date label vector handed to batch_processing is parallel to the
\* feature array, the target array and, when present, the risk exposure array:
\* the same number of rows, and position k of each is the same
\* (trade_date, code) row; also when the risk join drops rows.
C9_Parallel ==
    step = "batching" =>
        /\ Len(group_label) = Len(x_values)
        /\ Len(group_label) = Len(y_values)
        /\ risk_exp # None => Len(group_label) = Len(risk_exp[1])
        /\ Len(train_x) = Len(x_values)
        /\ Len(train_y) = Len(y_values)
        /\ \A k \in DOMAIN group_label :
              /\ k \in DOMAIN train_x
              /\ k \in DOMAIN train_y
              /\ group_label[k] = train_x[k].trade_date
              /\ KeyOfRow(train_x[k]) = KeyOfRow(train_y[k])

BaseColumns == {"trade_date", "code", "dx", "weight", "industry", "industry_code", "isOpen"}

\* C10: called with no risk neutralization factors (None, the default, or an
\* empty collection) fetch_data_package does not raise, hands no risk
\* exposures to batch_processing and appends no risk column to the settlement.
C10_NoRisk ==
    ~ Truthy(neutralized_risk) =>
        /\ raised = None
        /\ step # "failed"
        /\ step \in {"loaded", "settled", "batching"} => risk_exp = None
        /\ step \in {"settled", "batching"} =>
              \A k \in DOMAIN return_df : DOMAIN return_df[k] = BaseColumns

====
